---- MODULE Spec2Model ----
(***************************************************************************)
(* The Pelican settings module pelicanconf.py as a state machine.          *)
(*                                                                         *)
(* The module is a sequence of eighteen top-level assignment statements.   *)
(* Importing it executes them in order against a module namespace; the     *)
(* namespace after the last statement is the configuration record.  The    *)
(* model keeps the namespace, the position of the interpreter within the   *)
(* module, the number of loads started and the records the completed       *)
(* loads produced.                                                         *)
(*                                                                         *)
(* Python values are tagged records, so that None, text, integers, tuples  *)
(* and lists are distinct values: [none |-> TRUE], [str |-> s],            *)
(* [int |-> n], [tuple |-> seq], [list |-> seq].  The article pattern is   *)
(* text whose characters matter (it must contain "{slug}"), so it is kept  *)
(* as a sequence of one-character strings; the other texts are atomic.     *)
(***************************************************************************)
EXTENDS Integers, Sequences, FiniteSets, TLC

VARIABLES
    ns,       \* module namespace: function from bound names to values
    pc,       \* 0 = interpreter not in the module; k = about to run statement k
    loads,    \* number of loads started so far
    history   \* records produced by the completed loads, oldest first

vars == <<ns, pc, loads, history>>

\* Bound on the number of loads of one run.
MaxLoads == 4

\* Number of assignment statements in the module.
LastStmt == 18

----------------------------------------------------------------------------
\* Python values

None == [none |-> TRUE]

PyStr(s) == [str |-> s]

PyInt(n) == [int |-> n]

PyTuple(s) == [tuple |-> s]

PyList(s) == [list |-> s]

\* The namespace of a module that has executed nothing.
EmptyNamespace == <<>>

\* name = value, in namespace env: bind or rebind the name.
Bind(env, name, val) ==
    [n \in (DOMAIN env) \cup {name} |-> IF n = name THEN val ELSE env[n]]

----------------------------------------------------------------------------
\* The right-hand sides of the module's statements

AUTHOR == PyStr("Erwin Janssen")

SITENAME == PyStr("Erwin Janssen")

SITEURL == PyStr("")

PATH == PyStr("content")

TIMEZONE == PyStr("Europe/Amsterdam")

DEFAULT_LANG == PyStr("en")

ARTICLE_URL ==
    PyStr(<<"p","o","s","t","/","{","s","l","u","g","}",".","h","t","m","l">>)

\* A save pattern written out as its own literal, differing from the URL.
ARTICLE_SAVE_AS_OwnLiteral ==
    PyStr(<<"p","o","s","t","s","/","i","n","d","e","x",".","h","t","m","l">>)

\* The right-hand side is the name ARTICLE_URL, looked up in the namespace.
ARTICLE_SAVE_AS == ns["ARTICLE_URL"]

\* The all-content feed left enabled with a path pattern.
FEED_ALL_ATOM_Enabled == PyStr("feeds/all.atom.xml")

FEED_ALL_ATOM == None

CATEGORY_FEED_ATOM == None

TRANSLATION_FEED_ATOM == None

AUTHOR_FEED_ATOM == None

\* The per-author RSS feed left enabled with a path pattern.
AUTHOR_FEED_RSS_Enabled == PyStr("feeds/{slug}.rss.xml")

AUTHOR_FEED_RSS == None

\* The blogroll with its entries sorted by label.
LINKS_Sorted ==
    PyTuple(<< <<"Jinja2", "https://palletsprojects.com/p/jinja/">>,
             <<"Pelican", "https://getpelican.com/">>,
             <<"Python.org", "https://www.python.org/">>,
             <<"You can modify those links in your config file", "#">> >>)

LINKS ==
    PyTuple(<< <<"Pelican", "https://getpelican.com/">>,
             <<"Python.org", "https://www.python.org/">>,
             <<"Jinja2", "https://palletsprojects.com/p/jinja/">>,
             <<"You can modify those links in your config file", "#">> >>)

\* The social widget without its third entry.
SOCIAL_NoLinkedIn ==
    PyTuple(<< <<"GitHub", "https://github.com/ErwinJanssen/">>,
             <<"Mastodon", "https://mastodon.social/@erwinjanssen">> >>)

\* The social widget extended in place (SOCIAL += ...) when already bound.
SOCIAL_Accumulating ==
    LET own == << <<"GitHub", "https://github.com/ErwinJanssen/">>,
                  <<"Mastodon", "https://mastodon.social/@erwinjanssen">>,
                  <<"LinkedIn", "https://www.linkedin.com/in/ejjanssen/">> >>
    IN  IF "SOCIAL" \in DOMAIN ns
        THEN PyTuple(own \o own)
        ELSE PyTuple(own)

SOCIAL ==
    PyTuple(<< <<"GitHub", "https://github.com/ErwinJanssen/">>,
             <<"Mastodon", "https://mastodon.social/@erwinjanssen">>,
             <<"LinkedIn", "https://www.linkedin.com/in/ejjanssen/">> >>)

\* A page size of zero.
DEFAULT_PAGINATION_Zero == PyInt(0)

DEFAULT_PAGINATION == PyInt(10)

\* The plugin list with the reader named twice.
PLUGINS_Twice ==
    PyList(<<"pelican.plugins.pandoc_reader", "pelican.plugins.pandoc_reader">>)

\* The plugin list appended to the one already bound (PLUGINS += ...).
PLUGINS_Appending ==
    IF "PLUGINS" \in DOMAIN ns
    THEN PyList(ns["PLUGINS"].list \o <<"pelican.plugins.pandoc_reader">>)
    ELSE PyList(<<"pelican.plugins.pandoc_reader">>)

PLUGINS == PyList(<<"pelican.plugins.pandoc_reader">>)

\* The converter arguments with the newer spelling of the option added.
PANDOC_ARGS_Two ==
    PyList(<<"--base-header-level=2", "--shift-heading-level-by=1">>)

PANDOC_ARGS == PyList(<<"--base-header-level=2">>)

\* Every name the module binds.
SettingNames ==
    {"AUTHOR", "SITENAME", "SITEURL", "PATH", "TIMEZONE", "DEFAULT_LANG",
     "ARTICLE_URL", "ARTICLE_SAVE_AS", "FEED_ALL_ATOM", "CATEGORY_FEED_ATOM",
     "TRANSLATION_FEED_ATOM", "AUTHOR_FEED_ATOM", "AUTHOR_FEED_RSS", "LINKS",
     "SOCIAL", "DEFAULT_PAGINATION", "PLUGINS", "PANDOC_ARGS"}

\* The feed settings the module binds.
FeedSettings ==
    {"FEED_ALL_ATOM", "CATEGORY_FEED_ATOM", "TRANSLATION_FEED_ATOM",
     "AUTHOR_FEED_ATOM", "AUTHOR_FEED_RSS"}

----------------------------------------------------------------------------
\* The state machine

Init ==
    /\ ns = EmptyNamespace
    /\ pc = 0
    /\ loads = 0
    /\ history = <<>>

\* The record is complete: every statement of the module has bound its name.
Complete == DOMAIN ns = SettingNames

\* The interpreter is outside the module and the record is complete.
Loaded == pc = 0 /\ Complete

\* A load into a fresh module namespace.
BeginLoad ==
    /\ pc = 0
    /\ ns = EmptyNamespace
    /\ loads < MaxLoads
    /\ pc' = 1
    /\ loads' = loads + 1
    /\ UNCHANGED <<ns, history>>

\* A load that executes the module again in the namespace it already has.
Reload ==
    /\ Loaded
    /\ loads < MaxLoads
    /\ pc' = 1
    /\ loads' = loads + 1
    /\ UNCHANGED <<ns, history>>

\* Statement 1: AUTHOR = ...
Assign_AUTHOR ==
    /\ pc = 1
    /\ ns' = Bind(ns, "AUTHOR", AUTHOR)
    /\ pc' = 2
    /\ UNCHANGED <<loads, history>>

\* Statement 2: SITENAME = ...
Assign_SITENAME ==
    /\ pc = 2
    /\ ns' = Bind(ns, "SITENAME", SITENAME)
    /\ pc' = 3
    /\ UNCHANGED <<loads, history>>

\* Statement 3: SITEURL = ...
Assign_SITEURL ==
    /\ pc = 3
    /\ ns' = Bind(ns, "SITEURL", SITEURL)
    /\ pc' = 4
    /\ UNCHANGED <<loads, history>>

\* Statement 4: PATH = ...
Assign_PATH ==
    /\ pc = 4
    /\ ns' = Bind(ns, "PATH", PATH)
    /\ pc' = 5
    /\ UNCHANGED <<loads, history>>

\* Statement 5: TIMEZONE = ...
Assign_TIMEZONE ==
    /\ pc = 5
    /\ ns' = Bind(ns, "TIMEZONE", TIMEZONE)
    /\ pc' = 6
    /\ UNCHANGED <<loads, history>>

\* Statement 6: DEFAULT_LANG = ...
Assign_DEFAULT_LANG ==
    /\ pc = 6
    /\ ns' = Bind(ns, "DEFAULT_LANG", DEFAULT_LANG)
    /\ pc' = 7
    /\ UNCHANGED <<loads, history>>

\* Statement 7: ARTICLE_URL = ...
Assign_ARTICLE_URL ==
    /\ pc = 7
    /\ ns' = Bind(ns, "ARTICLE_URL", ARTICLE_URL)
    /\ pc' = 8
    /\ UNCHANGED <<loads, history>>

\* Statement 8: ARTICLE_SAVE_AS = ...
Assign_ARTICLE_SAVE_AS ==
    /\ pc = 8
    /\ ns' = Bind(ns, "ARTICLE_SAVE_AS", ARTICLE_SAVE_AS)
    /\ pc' = 9
    /\ UNCHANGED <<loads, history>>

\* Statement 9: FEED_ALL_ATOM = ...
Assign_FEED_ALL_ATOM ==
    /\ pc = 9
    /\ ns' = Bind(ns, "FEED_ALL_ATOM", FEED_ALL_ATOM)
    /\ pc' = 10
    /\ UNCHANGED <<loads, history>>

\* Statement 10: CATEGORY_FEED_ATOM = ...
Assign_CATEGORY_FEED_ATOM ==
    /\ pc = 10
    /\ ns' = Bind(ns, "CATEGORY_FEED_ATOM", CATEGORY_FEED_ATOM)
    /\ pc' = 11
    /\ UNCHANGED <<loads, history>>

\* Statement 11: TRANSLATION_FEED_ATOM = ...
Assign_TRANSLATION_FEED_ATOM ==
    /\ pc = 11
    /\ ns' = Bind(ns, "TRANSLATION_FEED_ATOM", TRANSLATION_FEED_ATOM)
    /\ pc' = 12
    /\ UNCHANGED <<loads, history>>

\* Statement 12: AUTHOR_FEED_ATOM = ...
Assign_AUTHOR_FEED_ATOM ==
    /\ pc = 12
    /\ ns' = Bind(ns, "AUTHOR_FEED_ATOM", AUTHOR_FEED_ATOM)
    /\ pc' = 13
    /\ UNCHANGED <<loads, history>>

\* Statement 13: AUTHOR_FEED_RSS = ...
Assign_AUTHOR_FEED_RSS ==
    /\ pc = 13
    /\ ns' = Bind(ns, "AUTHOR_FEED_RSS", AUTHOR_FEED_RSS)
    /\ pc' = 14
    /\ UNCHANGED <<loads, history>>

\* Statement 14: LINKS = ...
Assign_LINKS ==
    /\ pc = 14
    /\ ns' = Bind(ns, "LINKS", LINKS)
    /\ pc' = 15
    /\ UNCHANGED <<loads, history>>

\* Statement 15: SOCIAL = ...
Assign_SOCIAL ==
    /\ pc = 15
    /\ ns' = Bind(ns, "SOCIAL", SOCIAL)
    /\ pc' = 16
    /\ UNCHANGED <<loads, history>>

\* Statement 16: DEFAULT_PAGINATION = ...
Assign_DEFAULT_PAGINATION ==
    /\ pc = 16
    /\ ns' = Bind(ns, "DEFAULT_PAGINATION", DEFAULT_PAGINATION)
    /\ pc' = 17
    /\ UNCHANGED <<loads, history>>

\* Statement 17: PLUGINS = ...
Assign_PLUGINS ==
    /\ pc = 17
    /\ ns' = Bind(ns, "PLUGINS", PLUGINS)
    /\ pc' = 18
    /\ UNCHANGED <<loads, history>>

\* Statement 18: PANDOC_ARGS = ...
Assign_PANDOC_ARGS ==
    /\ pc = 18
    /\ ns' = Bind(ns, "PANDOC_ARGS", PANDOC_ARGS)
    /\ pc' = 19
    /\ UNCHANGED <<loads, history>>

\* The end of the module: the namespace is handed to the caller as the record.
FinishLoad ==
    /\ pc = LastStmt + 1
    /\ pc' = 0
    /\ history' = Append(history, ns)
    /\ UNCHANGED <<ns, loads>>

\* The caller drops the record once it has read it.
Discard ==
    /\ Loaded
    /\ ns' = EmptyNamespace
    /\ UNCHANGED <<pc, loads, history>>

Next ==
    \/ BeginLoad
    \/ Reload
    \/ Assign_AUTHOR
    \/ Assign_SITENAME
    \/ Assign_SITEURL
    \/ Assign_PATH
    \/ Assign_TIMEZONE
    \/ Assign_DEFAULT_LANG
    \/ Assign_ARTICLE_URL
    \/ Assign_ARTICLE_SAVE_AS
    \/ Assign_FEED_ALL_ATOM
    \/ Assign_CATEGORY_FEED_ATOM
    \/ Assign_TRANSLATION_FEED_ATOM
    \/ Assign_AUTHOR_FEED_ATOM
    \/ Assign_AUTHOR_FEED_RSS
    \/ Assign_LINKS
    \/ Assign_SOCIAL
    \/ Assign_DEFAULT_PAGINATION
    \/ Assign_PLUGINS
    \/ Assign_PANDOC_ARGS
    \/ FinishLoad
    \/ Discard

Spec == Init /\ [][Next]_vars

----------------------------------------------------------------------------
\* Helpers of the properties

\* Text t occurs in text s (both sequences of characters).
Contains(s, t) ==
    \E i \in 1..(Len(s) - Len(t) + 1) : SubSeq(s, i, i + Len(t) - 1) = t

SlugPlaceholder == <<"{","s","l","u","g","}">>

\* The interpreter has passed the statement that binds name in this load,
\* or a load has completed.
After(k) == (pc = 0 /\ Complete) \/ pc > k

TypeOK ==
    /\ pc \in 0..(LastStmt + 1)
    /\ loads \in 0..MaxLoads
    /\ DOMAIN ns \subseteq SettingNames
    /\ Len(history) <= loads

----------------------------------------------------------------------------
\* C1: whenever the statement binding ARTICLE_SAVE_AS has run (so in every
\* state after a load), ARTICLE_URL and ARTICLE_SAVE_AS hold the same text
\* and that text contains the {slug} placeholder.
C1_ArticlePatternsEqual ==
    After(8) =>
        /\ ns["ARTICLE_URL"] = ns["ARTICLE_SAVE_AS"]
        /\ Contains(ns["ARTICLE_SAVE_AS"].str, SlugPlaceholder)

C1_Witness ==
    /\ Loaded
    /\ "ARTICLE_SAVE_AS" \in DOMAIN ns
    /\ Len(ns["ARTICLE_SAVE_AS"].str) = 16

\* C2: after a load the four feed flags the specification lists (all-content,
\* category, translation, per-author Atom) are None; none holds a pattern.
C2_FourFeedsDisabled ==
    After(12) =>
        \A n \in {"FEED_ALL_ATOM", "CATEGORY_FEED_ATOM",
                  "TRANSLATION_FEED_ATOM", "AUTHOR_FEED_ATOM"} :
            /\ ns[n] = [none |-> TRUE]
            /\ "str" \notin DOMAIN ns[n]

C2_Witness == Loaded /\ ns["FEED_ALL_ATOM"] = [none |-> TRUE]

\* C3: after a load SOCIAL is exactly GitHub, Mastodon, LinkedIn, in that
\* order, with no further entries.
C3_SocialEntries ==
    After(15) =>
        /\ Len(ns["SOCIAL"].tuple) = 3
        /\ ns["SOCIAL"].tuple[1] = <<"GitHub", "https://github.com/ErwinJanssen/">>
        /\ ns["SOCIAL"].tuple[2] =
               <<"Mastodon", "https://mastodon.social/@erwinjanssen">>
        /\ ns["SOCIAL"].tuple[3] =
               <<"LinkedIn", "https://www.linkedin.com/in/ejjanssen/">>

C3_Witness == Loaded /\ ns["SOCIAL"].tuple[3][1] = "LinkedIn"

\* C4: after a load PLUGINS has exactly one entry, the Pandoc reader, and so
\* no plugin identifier occurs in it twice.
C4_OnePlugin ==
    After(17) =>
        /\ Len(ns["PLUGINS"].list) = 1
        /\ ns["PLUGINS"].list[1] = "pelican.plugins.pandoc_reader"
        /\ \A i, j \in 1..Len(ns["PLUGINS"].list) :
               ns["PLUGINS"].list[i] = ns["PLUGINS"].list[j] => i = j

C4_Witness == Loaded /\ ns["PLUGINS"].list # <<>>

\* C5: after a load PANDOC_ARGS has exactly one entry, "--base-header-level=2".
C5_OnePandocArg ==
    After(18) => ns["PANDOC_ARGS"].list = <<"--base-header-level=2">>

C5_Witness == Loaded /\ Len(ns["PANDOC_ARGS"].list) = 1

\* C6: after a load DEFAULT_PAGINATION is the integer 10, hence positive.
C6_PaginationTen ==
    After(16) =>
        /\ ns["DEFAULT_PAGINATION"] = [int |-> 10]
        /\ ns["DEFAULT_PAGINATION"].int > 0

C6_Witness == Loaded /\ ns["DEFAULT_PAGINATION"].int = 10

\* C7: loading is idempotent: the records of any two completed loads are
\* equal field for field, whatever came before them (a first load, a load
\* after a discard, or a re-execution in the same namespace).
C7_LoadIdempotent ==
    \A i, j \in 1..Len(history) :
        /\ DOMAIN history[i] = DOMAIN history[j]
        /\ \A n \in DOMAIN history[i] : history[i][n] = history[j][n]

\* Two loads have completed, the second a re-execution in the same namespace.
C7_Witness == Len(history) >= 2 /\ Loaded /\ loads >= 2

\* C8: the record is never mutated: from a complete record, every step other
\* than the discard leaves every field with the value it had, including the
\* steps of a later load into the same namespace.
C8_NeverMutated ==
    [][(Complete /\ ns' # EmptyNamespace) => ns' = ns]_vars

\* A later load has re-executed statements over a complete record.
C8_Witness == Complete /\ pc = LastStmt + 1 /\ loads >= 2

\* C9: after a load LINKS is exactly the four pairs Pelican, Python.org,
\* Jinja2 and the placeholder entry with URL "#", in that order.
C9_LinksOrder ==
    After(14) =>
        /\ Len(ns["LINKS"].tuple) = 4
        /\ ns["LINKS"].tuple[1] = <<"Pelican", "https://getpelican.com/">>
        /\ ns["LINKS"].tuple[2] = <<"Python.org", "https://www.python.org/">>
        /\ ns["LINKS"].tuple[3] =
               <<"Jinja2", "https://palletsprojects.com/p/jinja/">>
        /\ ns["LINKS"].tuple[4] =
               <<"You can modify those links in your config file", "#">>

C9_Witness == Loaded /\ ns["LINKS"].tuple[4][2] = "#"

\* C10: the module binds five feed settings and after a load each of the
\* five is None; the names bound to None are exactly those five.
C10_AllFiveFeedsDisabled ==
    After(13) =>
        /\ Cardinality(FeedSettings) = 5
        /\ FeedSettings \subseteq DOMAIN ns
        /\ {n \in DOMAIN ns : ns[n] = [none |-> TRUE]} = FeedSettings

C10_Witness == Loaded /\ ns["AUTHOR_FEED_RSS"] = [none |-> TRUE]

====
